---- MODULE Spec2Model ----
(***************************************************************************)
(* The React assistant of src/main.py: the ScaffoldingState class, the     *)
(* four tools, and the read-dispatch loop of main().                       *)
(*                                                                         *)
(* Python strings are TLA+ strings; str.lower() and str.strip() are        *)
(* computed character by character.  Python's None is the value None       *)
(* below, a text that no input line and no LLM reply of the model equals.  *)
(* The pictographs in front of some printed lines are left out of the      *)
(* printed texts.                                                          *)
(***************************************************************************)
EXTENDS Integers, Sequences, FiniteSets, TLC

VARIABLES
    scaffold,   \* the ScaffoldingState object of main() (src/main.py:153)
    messages,   \* the message history sent to the LLM (src/main.py:154)
    running,    \* TRUE while the `while True` loop has not been left
    nread,      \* number of input() calls made so far
    turn,       \* what the last loop iteration read, requested, called and printed
    call,       \* the last ScaffoldingState method called, with its return value
    tool        \* the tool call of the last step: <<>>, or one record with the
                \* tool, its arguments, what it found outside and what it returned

vars == <<scaffold, messages, running, nread, turn, call, tool>>

(***************************************************************************)
(* Bounds of the model.                                                    *)
(***************************************************************************)
MaxTurns == 3
MaxMessages == 5

(***************************************************************************)
(* Python values and string methods.                                       *)
(***************************************************************************)
None == "<None>"

\* bool(v) for v a string or None
Truthy(v) == v # None /\ v # ""

\* what an f-string prints for v
Str(v) == IF v = None THEN "None" ELSE v

Last(s) == s[Len(s)]

LowerChar(c) ==
    CASE c = "A" -> "a" [] c = "B" -> "b" [] c = "C" -> "c" [] c = "D" -> "d"
      [] c = "E" -> "e" [] c = "F" -> "f" [] c = "G" -> "g" [] c = "H" -> "h"
      [] c = "I" -> "i" [] c = "J" -> "j" [] c = "K" -> "k" [] c = "L" -> "l"
      [] c = "M" -> "m" [] c = "N" -> "n" [] c = "O" -> "o" [] c = "P" -> "p"
      [] c = "Q" -> "q" [] c = "R" -> "r" [] c = "S" -> "s" [] c = "T" -> "t"
      [] c = "U" -> "u" [] c = "V" -> "v" [] c = "W" -> "w" [] c = "X" -> "x"
      [] c = "Y" -> "y" [] c = "Z" -> "z" [] OTHER -> c

RECURSIVE lower(_)
lower(s) ==
    IF Len(s) = 0 THEN ""
    ELSE LowerChar(SubSeq(s, 1, 1)) \o lower(SubSeq(s, 2, Len(s)))

\* str.isspace() of one character
IsSpace(c) == c \in {" ", "\t"}

RECURSIVE lstrip(_)
lstrip(s) ==
    IF Len(s) > 0 /\ IsSpace(SubSeq(s, 1, 1)) THEN lstrip(SubSeq(s, 2, Len(s))) ELSE s

RECURSIVE rstrip(_)
rstrip(s) ==
    IF Len(s) > 0 /\ IsSpace(SubSeq(s, Len(s), Len(s)))
    THEN rstrip(SubSeq(s, 1, Len(s) - 1)) ELSE s

\* input() used without .strip()
strip_forgotten(s) == s

strip(s) == rstrip(lstrip(s))

(***************************************************************************)
(* class ScaffoldingState.  A method is an operator from the object before *)
(* the call to the object after it; <method>_ret is what it returns.       *)
(***************************************************************************)
\* reset() as it would be with the project_name line forgotten
reset_keeps_name(self) ==
    [active |-> FALSE, framework |-> None, variant |-> None,
     project_name |-> IF "project_name" \in DOMAIN self THEN self.project_name ELSE None]

reset(self) ==
    [active |-> FALSE, framework |-> None, variant |-> None, project_name |-> None]

ScaffoldingState == reset([active |-> FALSE])

start(self) == reset([self EXCEPT !.active = TRUE])

start_ret == "Which framework? (React, React-SWC, Preact)"

set_framework(self, value) == [self EXCEPT !.framework = lower(value)]

set_framework_ret == "JavaScript or TypeScript?"

set_variant(self, value) == [self EXCEPT !.variant = lower(value)]

set_variant_ret == "Project name?"

\* the template table with the (react-swc, typescript) row lost and another
\* default
templates_wrong(framework, variant) ==
    CASE framework = "react" /\ variant = "javascript" -> "react"
      [] framework = "react" /\ variant = "typescript" -> "react-ts"
      [] framework = "react-swc" /\ variant = "javascript" -> "react-swc"
      [] OTHER -> "react-ts"

templates(framework, variant) ==
    CASE framework = "react" /\ variant = "javascript" -> "react"
      [] framework = "react" /\ variant = "typescript" -> "react-ts"
      [] framework = "react-swc" /\ variant = "javascript" -> "react-swc"
      [] framework = "react-swc" /\ variant = "typescript" -> "react-swc-ts"
      [] OTHER -> "react"

generate_command(self) ==
    "npm create vite@latest " \o Str(self.project_name)
        \o " --template " \o templates(self.framework, self.variant)

set_name(self, value) == [self EXCEPT !.project_name = value, !.active = FALSE]

set_name_ret(self, value) == generate_command(set_name(self, value))

(***************************************************************************)
(* The tools.  What a tool finds outside the program (the exit of the      *)
(* child process, the answer of the weather service, the file system) is   *)
(* the record w:                                                           *)
(*   w.proc = [raised, returncode, stdout, stderr]   subprocess.run        *)
(*   w.http = [ok, text]                             requests.get          *)
(*   w.fs   = [raised, exists, size, content]        os.path / open        *)
(* raised says what raised: "no" for nothing; for w.proc the exception of  *)
(* subprocess.run; for w.fs the call that failed, "getsize" or "open".     *)
(***************************************************************************)
CommandTimeout == 30

MaxFileSize == 1000000

\* run_command as it would be without the test of the exit status
run_command_any_status(cmd, w) ==
    IF w.proc.raised = "TimeoutExpired"
    THEN "Command execution failed: Command '" \o Str(cmd) \o "' timed out after "
            \o ToString(CommandTimeout) \o " seconds"
    ELSE IF w.proc.raised # "no"
    THEN "Command execution failed: [Errno 12] Cannot allocate memory"
    ELSE w.proc.stdout

run_command(cmd, w) ==
    IF w.proc.raised = "TimeoutExpired"
    THEN "Command execution failed: Command '" \o Str(cmd) \o "' timed out after "
            \o ToString(CommandTimeout) \o " seconds"
    ELSE IF w.proc.raised # "no"
    THEN "Command execution failed: [Errno 12] Cannot allocate memory"
    ELSE IF w.proc.returncode = 0
         THEN w.proc.stdout
         ELSE "Error (code " \o ToString(w.proc.returncode) \o "): " \o w.proc.stderr

\* get_weather as it would be without .strip()
get_weather_untrimmed(city, w) ==
    IF w.http.ok
    THEN "Weather in " \o Str(city) \o ": " \o w.http.text
    ELSE "Weather service unavailable"

get_weather(city, w) ==
    IF w.http.ok
    THEN "Weather in " \o Str(city) \o ": " \o strip(w.http.text)
    ELSE "Weather service unavailable"

\* read_file as it would be with >= in the size test
read_file_below(file_path, w) ==
    IF ~w.fs.exists THEN "File not found: " \o Str(file_path)
    ELSE IF w.fs.raised = "getsize" THEN "Read error: [Errno 13] Permission denied"
    ELSE IF w.fs.size >= MaxFileSize THEN "File too large (max 1MB)"
    ELSE IF w.fs.raised = "open" THEN "Read error: [Errno 13] Permission denied"
    ELSE w.fs.content

read_file(file_path, w) ==
    IF ~w.fs.exists THEN "File not found: " \o Str(file_path)
    ELSE IF w.fs.raised = "getsize" THEN "Read error: [Errno 13] Permission denied"
    ELSE IF w.fs.size > MaxFileSize THEN "File too large (max 1MB)"
    ELSE IF w.fs.raised = "open" THEN "Read error: [Errno 13] Permission denied"
    ELSE w.fs.content

write_file(file_path, content, w) ==
    IF w.fs.raised = "open" THEN "Write error: [Errno 13] Permission denied"
    ELSE "File written: " \o Str(file_path)

\* the keys of the TOOLS dictionary
TOOLS == {"get_weather", "run_command", "read_file", "write_file"}

\* TOOLS[tool_name](*args)
tool_fn(tool_name, args, w) ==
    CASE tool_name = "get_weather" -> get_weather(args[1], w)
      [] tool_name = "run_command" -> run_command(args[1], w)
      [] tool_name = "read_file" -> read_file(args[1], w)
      [] tool_name = "write_file" -> write_file(args[1], args[2], w)

RECURSIVE Repeat(_, _)
Repeat(s, n) == IF n = 0 THEN "" ELSE s \o Repeat(s, n - 1)

LongOutput == Repeat("0123456789", 21)

WorldOk ==
    [proc |-> [raised |-> "no", returncode |-> 0, stdout |-> LongOutput, stderr |-> ""],
     http |-> [ok |-> TRUE, text |-> " Sunny +20C "],
     fs |-> [raised |-> "no", exists |-> TRUE, size |-> 5, content |-> "hello"]]

WorldFail ==
    [proc |-> [raised |-> "no", returncode |-> 1, stdout |-> "", stderr |-> "sh: not found"],
     http |-> [ok |-> FALSE, text |-> ""],
     fs |-> [raised |-> "no", exists |-> FALSE, size |-> 0, content |-> ""]]

Worlds == {WorldOk, WorldFail}

\* a tool call: the tool, its arguments, what it found and what it returned
ToolCall(tool_name, args, w) ==
    [name |-> tool_name, args |-> args, w |-> w, result |-> tool_fn(tool_name, args, w)]

\* result[:200] followed by '...' when len(result) > 200
TruncateAt == 200

Truncated(result) ==
    IF Len(result) > TruncateAt
    THEN SubSeq(result, 1, TruncateAt) \o "..."
    ELSE result

(***************************************************************************)
(* JSON.  A parsed value is a record with a kind: a dict keeps its members *)
(* as <<key, value>> pairs in the order of the text, which is the order a  *)
(* Python dict iterates in.                                                *)
(***************************************************************************)
Dict(items) == [kind |-> "dict", items |-> items]

JSONDecodeError == [kind |-> "JSONDecodeError", items |-> <<>>]

\* d.get(key, default)
dict_get(d, key, default) ==
    LET hits == {i \in 1..Len(d.items) : d.items[i][1] = key}
    IN  IF hits = {} THEN default ELSE d.items[CHOOSE i \in hits : TRUE][2]

\* list(d.values())
dict_values(d) == [i \in 1..Len(d.items) |-> d.items[i][2]]

\* The texts the LLM answers with in this model.
ReplyBad == "Sure, run npm install"
ReplyList == "[1, 2]"
ReplyQA == "{\"mode\": \"QA\", \"response\": \"Use hooks\"}"
ReplyNoMode == "{\"function\": \"run_command\", \"parameters\": {\"cmd\": \"ls\"}}"
ReplyScaffolding == "{\"mode\": \"SCAFFOLDING\", \"response\": \"Which framework?\"}"
ReplyRun ==
    "{\"mode\": \"TOOLS\", \"response\": \"Listing\", \"function\": \"run_command\", \"parameters\": {\"cmd\": \"ls -la\"}}"
ReplyWrite ==
    "{\"mode\": \"TOOLS\", \"function\": \"write_file\", \"parameters\": {\"file_path\": \"test.txt\"}}"
ReplyRead ==
    "{\"mode\": \"TOOLS\", \"function\": \"read_file\", \"parameters\": {\"encoding\": \"utf-8\", \"file_path\": \"src/App.js\"}}"
ReplyWeather == "{\"mode\": \"TOOLS\", \"response\": \"Checking\", \"function\": \"get_weather\"}"
ReplyUnknown ==
    "{\"mode\": \"TOOLS\", \"function\": \"delete_file\", \"parameters\": {\"file_path\": \"test.txt\"}}"
ReplyNoFunction == "{\"mode\": \"TOOLS\", \"response\": \"Running\"}"
ReplyEmptyParams ==
    "{\"mode\": \"TOOLS\", \"function\": \"run_command\", \"parameters\": {}}"
ReplyBadParams ==
    "{\"mode\": \"TOOLS\", \"function\": \"run_command\", \"parameters\": \"ls\"}"

\* json.loads(text), for the texts above; any other text is not JSON
json_loads(text) ==
    CASE text = ReplyList -> [kind |-> "list", items |-> <<1, 2>>]
      [] text = ReplyQA -> Dict(<< <<"mode", "QA">>, <<"response", "Use hooks">> >>)
      [] text = ReplyNoMode ->
            Dict(<< <<"function", "run_command">>,
                    <<"parameters", Dict(<< <<"cmd", "ls">> >>)>> >>)
      [] text = ReplyScaffolding ->
            Dict(<< <<"mode", "SCAFFOLDING">>, <<"response", "Which framework?">> >>)
      [] text = ReplyRun ->
            Dict(<< <<"mode", "TOOLS">>, <<"response", "Listing">>,
                    <<"function", "run_command">>,
                    <<"parameters", Dict(<< <<"cmd", "ls -la">> >>)>> >>)
      [] text = ReplyWrite ->
            Dict(<< <<"mode", "TOOLS">>, <<"function", "write_file">>,
                    <<"parameters", Dict(<< <<"file_path", "test.txt">> >>)>> >>)
      [] text = ReplyRead ->
            Dict(<< <<"mode", "TOOLS">>, <<"function", "read_file">>,
                    <<"parameters", Dict(<< <<"encoding", "utf-8">>,
                                            <<"file_path", "src/App.js">> >>)>> >>)
      [] text = ReplyWeather ->
            Dict(<< <<"mode", "TOOLS">>, <<"response", "Checking">>,
                    <<"function", "get_weather">> >>)
      [] text = ReplyUnknown ->
            Dict(<< <<"mode", "TOOLS">>, <<"function", "delete_file">>,
                    <<"parameters", Dict(<< <<"file_path", "test.txt">> >>)>> >>)
      [] text = ReplyNoFunction ->
            Dict(<< <<"mode", "TOOLS">>, <<"response", "Running">> >>)
      [] text = ReplyEmptyParams ->
            Dict(<< <<"mode", "TOOLS">>, <<"function", "run_command">>,
                    <<"parameters", Dict(<<>>)>> >>)
      [] text = ReplyBadParams ->
            Dict(<< <<"mode", "TOOLS">>, <<"function", "run_command">>,
                    <<"parameters", [kind |-> "str", items |-> "ls"]>> >>)
      [] OTHER -> JSONDecodeError

\* What client.chat.completions.create does: it raises, or it returns a
\* response whose message content is a text.
LLMOutcomes ==
    {[raised |-> TRUE, content |-> ""]}
    \cup {[raised |-> FALSE, content |-> t] :
            t \in {ReplyBad, ReplyList, ReplyQA, ReplyNoMode, ReplyScaffolding, ReplyRun,
                   ReplyWrite, ReplyRead, ReplyWeather, ReplyUnknown, ReplyNoFunction,
                   ReplyEmptyParams, ReplyBadParams}}

(***************************************************************************)
(* main(): one iteration of the `while True` loop.                         *)
(*                                                                         *)
(* An iteration is computed as a record: the objects after it (scaffold,   *)
(* messages, running, call) and what it did (requests: the message lists   *)
(* sent to the LLM, replies: what the LLM call did, calls: the tools       *)
(* called with their arguments, printed: the lines printed).               *)
(***************************************************************************)
SYSTEM_PROMPT == "You are a React expert assistant with three modes: ..."

Message(role, content) == [role |-> role, content |-> content]

\* a method call: the object it was called on, its argument and its return value
Called(method, self, arg, ret) ==
    [method |-> method, self |-> self, arg |-> arg, ret |-> ret]

\* the user message as it would be if the history were rebuilt around it
AppendUser_rebuilt(msgs, user_input) == <<msgs[1], Message("user", user_input)>>

\* messages.append({"role": "user", "content": user_input})
AppendUser(msgs, user_input) == Append(msgs, Message("user", user_input))

\* messages.append({"role": "assistant", "content": ai_content})
AppendAssistant(msgs, ai_content) == Append(msgs, Message("assistant", ai_content))

\* the history as it would be if the append came before json.loads
AfterParse_always(msgs, ai_content, ai_response) ==
    Append(msgs, Message("assistant", ai_content))

\* the history after json.loads: the `continue` of the except clause skips
\* the append
AfterParse(msgs, ai_content, ai_response) ==
    IF ai_response.kind = "JSONDecodeError" THEN msgs
    ELSE AppendAssistant(msgs, ai_content)

\* the exit test without .lower()
IsExit_exact(user_input) == user_input = "exit"

IsExit(user_input) == lower(user_input) = "exit"

IsNew(user_input) == lower(user_input) = "new"

\* the mode test as it would be if every decision naming a function dispatched
ToolsRequested_any(mode) == TRUE

ToolsRequested(mode) == mode = "TOOLS"

\* tool_name and tool_name in TOOLS
IsRegistered(tool_name) == Truthy(tool_name) /\ tool_name \in TOOLS

\* the arguments as they would be if the last value were taken, not the first
ToolArgs_last(tool_name, params) ==
    IF tool_name = "write_file"
    THEN IF params.kind = "dict"
         THEN [raised |-> FALSE,
               args |-> <<dict_get(params, "file_path", ""),
                          dict_get(params, "content", "")>>]
         ELSE [raised |-> TRUE, args |-> <<>>]
    ELSE IF Len(params.items) > 0
         THEN IF params.kind = "dict"
              THEN [raised |-> FALSE, args |-> <<Last(dict_values(params))>>]
              ELSE [raised |-> TRUE, args |-> <<>>]
         ELSE [raised |-> FALSE, args |-> <<"">>]

\* The arguments a tool is called with; raised when building them raises
\* (params is not a dict).
ToolArgs(tool_name, params) ==
    IF tool_name = "write_file"
    THEN IF params.kind = "dict"
         THEN [raised |-> FALSE,
               args |-> <<dict_get(params, "file_path", ""),
                          dict_get(params, "content", "")>>]
         ELSE [raised |-> TRUE, args |-> <<>>]
    ELSE IF Len(params.items) > 0
         THEN IF params.kind = "dict"
              THEN [raised |-> FALSE, args |-> <<dict_values(params)[1]>>]
              ELSE [raised |-> TRUE, args |-> <<>>]
         ELSE [raised |-> FALSE, args |-> <<"">>]

\* `if mode == "TOOLS":` and what follows
Dispatch(ai_response, w) ==
    LET tool_name == dict_get(ai_response, "function", None)
        params == dict_get(ai_response, "parameters", Dict(<<>>))
    IN  IF IsRegistered(tool_name)
        THEN LET a == ToolArgs(tool_name, params)
             IN  IF a.raised
                 THEN [calls |-> <<>>,
                       printed |-> <<"Tool error: '" \o params.kind
                                        \o "' object has no attribute '"
                                        \o (IF tool_name = "write_file" THEN "get"
                                            ELSE "values") \o "'">>]
                 ELSE [calls |-> <<[name |-> tool_name, args |-> a.args]>>,
                       printed |-> <<"Tool result: "
                                        \o Truncated(tool_fn(tool_name, a.args, w))>>]
        ELSE [calls |-> <<>>, printed |-> <<"Invalid tool request">>]

\* `if scaffold.active:` and what follows
Scaffolding(r, user_input, w) ==
    LET sc == r.scaffold
    IN  IF ~Truthy(sc.framework)
        THEN [r EXCEPT !.scaffold = set_framework(sc, user_input),
                       !.call = Called("set_framework", sc, user_input, set_framework_ret),
                       !.printed = <<"Assistant: " \o set_framework_ret>>]
        ELSE IF ~Truthy(sc.variant)
        THEN [r EXCEPT !.scaffold = set_variant(sc, user_input),
                       !.call = Called("set_variant", sc, user_input, set_variant_ret),
                       !.printed = <<"Assistant: " \o set_variant_ret>>]
        ELSE IF ~Truthy(sc.project_name)
        THEN LET command == set_name_ret(sc, user_input)
                 result == run_command(command, w)
             IN  [r EXCEPT !.scaffold = set_name(sc, user_input),
                           !.call = Called("set_name", sc, user_input, command),
                           !.calls = <<[name |-> "run_command", args |-> <<command>>]>>,
                           !.printed = <<"Executing: " \o command,
                                         "Result: " \o Truncated(result)>>]
        ELSE r

\* the outer handler as it would be if it left the loop
Caught_fatal(r, message) ==
    [r EXCEPT !.running = FALSE, !.printed = <<"Error: " \o message>>]

\* `except Exception as e:` of the loop: the iteration ends where the
\* exception was raised, the message is printed and the loop goes on
Caught(r, message) == [r EXCEPT !.printed = <<"Error: " \o message>>]

\* from `messages.append(user)` to the end of the loop body
Converse(r, user_input, llm, w) ==
    LET msgs == AppendUser(r.messages, user_input)
        asked == [r EXCEPT !.messages = msgs, !.requests = <<msgs>>, !.replies = <<llm>>]
    IN  IF llm.raised
        THEN Caught(asked, "Connection error.")
        ELSE LET ai_content == llm.content
                 ai_response == json_loads(ai_content)
                 parsed == [asked EXCEPT
                               !.messages = AfterParse(msgs, ai_content, ai_response)]
             IN  IF ai_response.kind = "JSONDecodeError"
                 THEN [parsed EXCEPT !.printed = <<"Invalid response format">>]
                 ELSE IF ai_response.kind # "dict"
                 THEN Caught(parsed, "'" \o ai_response.kind
                                        \o "' object has no attribute 'get'")
                 ELSE LET mode == dict_get(ai_response, "mode", "QA")
                          response_text ==
                              dict_get(ai_response, "response",
                                       "I can help with React questions")
                          d == IF ToolsRequested(mode) THEN Dispatch(ai_response, w)
                               ELSE [calls |-> <<>>, printed |-> <<>>]
                      IN  [parsed EXCEPT
                              !.calls = d.calls,
                              !.printed = <<"Assistant: " \o response_text>> \o d.printed]

\* What input() does: it returns a line, raises EOFError, or the user
\* interrupts it.
Line(text) == [kind |-> "line", text |-> text]

EndOfInput == [kind |-> "eof", text |-> ""]

Interrupt == [kind |-> "interrupt", text |-> ""]

\* the loop body as it would be if a SCAFFOLDING decision of the LLM started
\* the session
LoopBody_llm_starts(sc, msgs, c, ev, llm, w) ==
    LET r == [scaffold |-> sc, messages |-> msgs, running |-> TRUE, call |-> c,
              requests |-> <<>>, replies |-> <<>>, calls |-> <<>>, printed |-> <<>>]
    IN  IF ev.kind = "interrupt"
        THEN [r EXCEPT !.running = FALSE, !.printed = <<"Session ended">>]
        ELSE IF ev.kind = "eof"
        THEN Caught(r, "EOF when reading a line")
        ELSE LET user_input == strip(ev.text)
             IN  IF ~Truthy(user_input) THEN r
                 ELSE IF IsExit(user_input)
                 THEN [r EXCEPT !.running = FALSE, !.printed = <<"Goodbye!">>]
                 ELSE IF IsNew(user_input)
                 THEN [r EXCEPT !.scaffold = start(sc),
                                !.call = Called("start", sc, None, start_ret),
                                !.printed = <<"Assistant: " \o start_ret>>]
                 ELSE IF sc.active THEN Scaffolding(r, user_input, w)
                 ELSE LET after == Converse(r, user_input, llm, w)
                      IN  IF ~llm.raised /\ llm.content = ReplyScaffolding
                          THEN [after EXCEPT !.scaffold.active = TRUE]
                          ELSE after

LoopBody(sc, msgs, c, ev, llm, w) ==
    LET r == [scaffold |-> sc, messages |-> msgs, running |-> TRUE, call |-> c,
              requests |-> <<>>, replies |-> <<>>, calls |-> <<>>, printed |-> <<>>]
    IN  IF ev.kind = "interrupt"
        THEN [r EXCEPT !.running = FALSE, !.printed = <<"Session ended">>]
        ELSE IF ev.kind = "eof"
        THEN Caught(r, "EOF when reading a line")
        ELSE LET user_input == strip(ev.text)
             IN  IF ~Truthy(user_input) THEN r
                 ELSE IF IsExit(user_input)
                 THEN [r EXCEPT !.running = FALSE, !.printed = <<"Goodbye!">>]
                 ELSE IF IsNew(user_input)
                 THEN [r EXCEPT !.scaffold = start(sc),
                                !.call = Called("start", sc, None, start_ret),
                                !.printed = <<"Assistant: " \o start_ret>>]
                 ELSE IF sc.active THEN Scaffolding(r, user_input, w)
                 ELSE Converse(r, user_input, llm, w)

(***************************************************************************)
(* The loop as a state machine.                                            *)
(***************************************************************************)
Init ==
    /\ scaffold = ScaffoldingState
    /\ messages = <<Message("system", SYSTEM_PROMPT)>>
    /\ running = TRUE
    /\ nread = 0
    /\ turn = [event |-> [kind |-> "none", text |-> ""],
               requests |-> <<>>, replies |-> <<>>, calls |-> <<>>,
               printed |-> <<"React Assistant: How can I help with React today?",
                             "Type 'exit' to quit or 'new' to create app">>]
    /\ call = Called("__init__", ScaffoldingState, None, None)
    /\ tool = <<>>

Turn(ev) ==
    /\ running
    /\ \E llm \in LLMOutcomes, w \in Worlds :
          LET r == LoopBody(scaffold, messages, call, ev, llm, w)
          IN  /\ scaffold' = r.scaffold
              /\ messages' = r.messages
              /\ running' = r.running
              /\ call' = r.call
              /\ nread' = nread + 1
              /\ turn' = [event |-> ev, requests |-> r.requests, replies |-> r.replies,
                          calls |-> r.calls, printed |-> r.printed]
              /\ tool' = [i \in 1..Len(r.calls) |->
                            ToolCall(r.calls[i].name, r.calls[i].args, w)]

Lines == {"", "  ", "exit", " EXIT", "new", "React", "my-app"}

Events == {Line(t) : t \in Lines} \cup {EndOfInput, Interrupt}

Next ==
    \E ev \in Events :
        /\ nread < MaxTurns
        /\ Len(messages) + 2 <= MaxMessages
        /\ Turn(ev)

Spec == Init /\ [][Next]_vars

(***************************************************************************)
(* The loop fed the end-to-end scenario of the documentation.              *)
(***************************************************************************)
Scenario == <<"new", "React", "TypeScript", "my-app">>

ScenarioNext == nread < Len(Scenario) /\ Turn(Line(Scenario[nread + 1]))

ScenarioSpec == Init /\ [][ScenarioNext]_vars

(***************************************************************************)
(* The ScaffoldingState class on its own: its methods called in any order  *)
(* with any of the answers below.                                          *)
(***************************************************************************)
Answers == {"React", "React-SWC", "Preact", "JavaScript", "TypeScript", "my-app"}

CallReset ==
    /\ scaffold' = reset(scaffold)
    /\ call' = Called("reset", scaffold, None, None)
    /\ UNCHANGED <<messages, running, nread, turn, tool>>

CallStart ==
    /\ scaffold' = start(scaffold)
    /\ call' = Called("start", scaffold, None, start_ret)
    /\ UNCHANGED <<messages, running, nread, turn, tool>>

CallSetFramework ==
    \E value \in Answers :
        /\ scaffold' = set_framework(scaffold, value)
        /\ call' = Called("set_framework", scaffold, value, set_framework_ret)
        /\ UNCHANGED <<messages, running, nread, turn, tool>>

CallSetVariant ==
    \E value \in Answers :
        /\ scaffold' = set_variant(scaffold, value)
        /\ call' = Called("set_variant", scaffold, value, set_variant_ret)
        /\ UNCHANGED <<messages, running, nread, turn, tool>>

CallSetName ==
    \E value \in Answers :
        /\ scaffold' = set_name(scaffold, value)
        /\ call' = Called("set_name", scaffold, value, set_name_ret(scaffold, value))
        /\ UNCHANGED <<messages, running, nread, turn, tool>>

CallGenerateCommand ==
    /\ call' = Called("generate_command", scaffold, None, generate_command(scaffold))
    /\ UNCHANGED <<scaffold, messages, running, nread, turn, tool>>

ObjectNext ==
    \/ CallReset
    \/ CallStart
    \/ CallSetFramework
    \/ CallSetVariant
    \/ CallSetName
    \/ CallGenerateCommand

ObjectSpec == Init /\ [][ObjectNext]_vars

(***************************************************************************)
(* The tools on their own: each called with any of the arguments below in  *)
(* any of the situations below.                                            *)
(***************************************************************************)
Commands == {"ls -la", "npm test"}

Cities == {"Paris", "New York"}

Paths == {"src/App.js", "notes/todo.txt"}

Contents == {"", "Hello"}

Procs ==
    {[raised |-> e, returncode |-> c, stdout |-> "out", stderr |-> "err"] :
        e \in {"no", "TimeoutExpired", "OSError"}, c \in {0, 1, 127}}

Https == {[ok |-> TRUE, text |-> " Sunny +20C "], [ok |-> FALSE, text |-> ""]}

Files ==
    {[raised |-> e, exists |-> x, size |-> n, content |-> "hello"] :
        e \in {"no", "getsize", "open"}, x \in BOOLEAN,
        n \in {0, MaxFileSize - 1, MaxFileSize, MaxFileSize + 1}}

CallRunCommand ==
    \E cmd \in Commands, p \in Procs :
        /\ tool' = <<ToolCall("run_command", <<cmd>>, [WorldOk EXCEPT !.proc = p])>>
        /\ UNCHANGED <<scaffold, messages, running, nread, turn, call>>

CallGetWeather ==
    \E city \in Cities, h \in Https :
        /\ tool' = <<ToolCall("get_weather", <<city>>, [WorldOk EXCEPT !.http = h])>>
        /\ UNCHANGED <<scaffold, messages, running, nread, turn, call>>

CallReadFile ==
    \E file_path \in Paths, f \in Files :
        /\ tool' = <<ToolCall("read_file", <<file_path>>, [WorldOk EXCEPT !.fs = f])>>
        /\ UNCHANGED <<scaffold, messages, running, nread, turn, call>>

CallWriteFile ==
    \E file_path \in Paths, content \in Contents, f \in Files :
        /\ tool' = <<ToolCall("write_file", <<file_path, content>>,
                              [WorldOk EXCEPT !.fs = f])>>
        /\ UNCHANGED <<scaffold, messages, running, nread, turn, call>>

ToolsNext ==
    \/ CallRunCommand
    \/ CallGetWeather
    \/ CallReadFile
    \/ CallWriteFile

ToolsSpec == Init /\ [][ToolsNext]_vars

(***************************************************************************)
(* Properties.                                                             *)
(***************************************************************************)
\* the text of the line the last iteration read, stripped
UserInput(t) == strip(t.event.text)

\* the last iteration read the `new` command
ReadNew(t) == t.event.kind = "line" /\ IsNew(UserInput(t))

\* the last iteration read a line that is not empty and not a control word
ReadOrdinary(t) ==
    /\ t.event.kind = "line"
    /\ UserInput(t) # ""
    /\ lower(UserInput(t)) \notin {"exit", "new"}

\* the LLM answered the last iteration with a text that is not JSON
ParseFailed(t) ==
    /\ Len(t.replies) = 1
    /\ ~t.replies[1].raised
    /\ json_loads(t.replies[1].content).kind = "JSONDecodeError"

IsPrefix(s, t) == Len(s) <= Len(t) /\ SubSeq(t, 1, Len(s)) = s

\* C1: right after the `new` command is handled the session is active and
\* awaits the framework answer.
C1_NewActivates ==
    ReadNew(turn) => scaffold.active /\ ~Truthy(scaffold.framework)

\* C2: fed new, React, TypeScript, my-app, the loop prints the three prompts
\* in order, then runs exactly `npm create vite@latest my-app --template
\* react-ts` through run_command and leaves the session inactive.
C2_Scenario ==
    /\ nread = 1 => turn.printed = <<"Assistant: Which framework? (React, React-SWC, Preact)">>
    /\ nread = 2 => turn.printed = <<"Assistant: JavaScript or TypeScript?">>
    /\ nread = 3 => turn.printed = <<"Assistant: Project name?">>
    /\ nread = 4 =>
          /\ turn.calls = <<[name |-> "run_command",
                             args |-> <<"npm create vite@latest my-app --template react-ts">>]>>
          /\ ~scaffold.active

\* C3: no LLM request is made in an iteration that begins with the session
\* active, nor for the ordinary input that follows `new`.
C3_ScaffoldingExcludesLLM ==
    [][/\ scaffold.active => turn'.requests = <<>>
       /\ ReadNew(turn) /\ ReadOrdinary(turn') => turn'.requests = <<>>]_vars

\* C4: after start() framework, variant and project name are unset whatever
\* the object held before, and the command synthesized from it carries no
\* earlier value.
C4_StartResets ==
    call.method = "start" =>
        /\ scaffold.framework = None
        /\ scaffold.variant = None
        /\ scaffold.project_name = None
        /\ generate_command(scaffold) = "npm create vite@latest None --template react"

\* start() was called on an object left mid-flow: framework and variant
\* answered, project name not
C4_Witness ==
    /\ call.method = "start"
    /\ call.self.framework = "react-swc"
    /\ call.self.variant = "typescript"
    /\ call.self.project_name = None
    /\ scaffold.framework = None

\* the reference table of the documentation
C5_Suffix(framework, variant) ==
    IF <<framework, variant>> = <<"react", "javascript">> THEN "react"
    ELSE IF <<framework, variant>> = <<"react", "typescript">> THEN "react-ts"
    ELSE IF <<framework, variant>> = <<"react-swc", "javascript">> THEN "react-swc"
    ELSE IF <<framework, variant>> = <<"react-swc", "typescript">> THEN "react-swc-ts"
    ELSE "react"

\* C5: the synthesized command is `npm create vite@latest <projectName>
\* --template <suffix>` with the suffix of the reference table, and `react`
\* for every pair outside it.
C5_CommandSynthesis ==
    call.method \in {"generate_command", "set_name"} =>
        call.ret = "npm create vite@latest " \o Str(scaffold.project_name)
                      \o " --template " \o C5_Suffix(scaffold.framework, scaffold.variant)

C5_Witness ==
    /\ call.method = "set_name"
    /\ scaffold.framework = "react-swc"
    /\ scaffold.variant = "typescript"
    /\ call.ret = "npm create vite@latest my-app --template react-swc-ts"

\* C6: the first history entry is always the system instruction, and every
\* step leaves the history it found as a prefix of the history it leaves.
C6_HistoryAppendOnly ==
    /\ [](messages[1] = Message("system", SYSTEM_PROMPT))
    /\ [][IsPrefix(messages, messages')]_vars

\* a second user message was appended behind a first exchange
C6_Witness ==
    /\ Len(messages) = 4
    /\ messages[2].role = "user"
    /\ messages[3].role = "assistant"
    /\ messages[4].role = "user"

\* C7: an iteration whose LLM reply is not JSON leaves the loop running,
\* calls no tool and adds to the history the user message and nothing else.
C7_ParseFailure ==
    [][ParseFailed(turn') =>
          /\ running'
          /\ turn'.calls = <<>>
          /\ messages' = Append(messages, Message("user", UserInput(turn')))]_vars

C7_Witness ==
    /\ ParseFailed(turn)
    /\ Len(messages) = 4
    /\ running

\* C8 as stated: the text that failed to parse is the last history entry,
\* as the assistant's message.
C8_MalformedAppended ==
    ParseFailed(turn) =>
        Last(messages) = Message("assistant", turn.replies[1].content)

\* C8, amended: the text that failed to parse is not appended: the history
\* ends with the user message of that iteration, and no assistant entry of
\* the history is a text that does not parse.
C8_MalformedNotAppended ==
    /\ ParseFailed(turn) => Last(messages) = Message("user", UserInput(turn))
    /\ \A i \in 1..Len(messages) :
          messages[i].role = "assistant" =>
              json_loads(messages[i].content).kind # "JSONDecodeError"

C8_Witness ==
    /\ ParseFailed(turn)
    /\ turn.printed = <<"Invalid response format">>
    /\ Last(messages).role = "user"

\* the registered tool names, and the decision the last iteration parsed
C9_Registered == {"get_weather", "run_command", "read_file", "write_file"}

C9_Decision(t) ==
    IF Len(t.replies) = 1 /\ ~t.replies[1].raised
    THEN json_loads(t.replies[1].content)
    ELSE JSONDecodeError

\* C9: a tool is called only for a decision with mode TOOLS whose function
\* is one of the four registered names, and it is that tool; a TOOLS
\* decision whose function is absent or not registered calls no tool, prints
\* the warning and leaves the loop running.
C9_DispatchOnlyRegistered ==
    LET d == C9_Decision(turn)
        tools_mode == d.kind = "dict" /\ dict_get(d, "mode", "QA") = "TOOLS"
        function == IF d.kind = "dict" THEN dict_get(d, "function", None) ELSE None
    IN  /\ turn.calls # <<>> =>
              /\ tools_mode
              /\ function \in C9_Registered
              /\ Len(turn.calls) = 1
              /\ turn.calls[1].name = function
        /\ tools_mode /\ function \notin C9_Registered =>
              /\ turn.calls = <<>>
              /\ turn.printed[Len(turn.printed)] = "Invalid tool request"
              /\ running

C9_Witness ==
    /\ Len(turn.calls) = 1
    /\ turn.calls[1].name = "read_file"
    /\ Len(messages) = 5

\* C10: reading `exit` in any letter case ends the loop in that iteration,
\* with no LLM request, no tool call and the history untouched.
C10_ExitTerminates ==
    [][turn'.event.kind = "line" /\ lower(UserInput(turn')) = "exit" =>
          /\ ~running'
          /\ turn'.requests = <<>>
          /\ turn'.calls = <<>>
          /\ messages' = messages]_vars

C10_Witness ==
    /\ turn.event = Line(" EXIT")
    /\ ~running
    /\ Len(messages) = 3
    /\ call.method = "start"

\* p is how the text s begins
StartsWith(s, p) == Len(s) >= Len(p) /\ SubSeq(s, 1, Len(p)) = p

\* the last iteration read the `exit` command
ReadExit(t) == t.event.kind = "line" /\ lower(UserInput(t)) = "exit"

\* a fault was raised in the last iteration: input() failed, the LLM call
\* failed, the decision was JSON but no object, or the arguments of a
\* registered tool could not be built
Faulted(t) ==
    \/ t.event.kind = "eof"
    \/ /\ Len(t.replies) = 1
       /\ \/ t.replies[1].raised
          \/ LET d == json_loads(t.replies[1].content)
             IN  \/ d.kind = "list"
                 \/ /\ d.kind = "dict"
                    /\ dict_get(d, "mode", "QA") = "TOOLS"
                    /\ dict_get(d, "function", None) \in C9_Registered
                    /\ ToolArgs(dict_get(d, "function", None),
                                dict_get(d, "parameters", Dict(<<>>))).raised

\* C11: the loop is left only by an iteration that read `exit` or was
\* interrupted; an iteration in which a fault was raised ends with a printed
\* warning and leaves the loop running.
C11_OnlyExitOrInterrupt ==
    [][/\ running /\ ~running' => ReadExit(turn') \/ turn'.event.kind = "interrupt"
       /\ Faulted(turn') =>
             /\ running'
             /\ \/ StartsWith(Last(turn'.printed), "Error: ")
                \/ StartsWith(Last(turn'.printed), "Tool error: ")]_vars

\* the LLM call failed in the second iteration and the loop went on
C11_Witness ==
    /\ Len(turn.replies) = 1
    /\ turn.replies[1].raised
    /\ running
    /\ nread = 2

\* the last step called the tool tool_name
ToolCalled(tool_name) == Len(tool) = 1 /\ tool[1].name = tool_name

\* C12 as stated: read_file returns the contents exactly when the path
\* exists and the size is below 1,000,000; the "not found" text for a
\* missing path; the "too large" text for every size not below 1,000,000.
C12_ReadBelowCeiling ==
    ToolCalled("read_file") =>
        LET f == tool[1].w.fs
            result == tool[1].result
        IN  /\ result = f.content <=> f.exists /\ f.size < MaxFileSize
            /\ ~f.exists => result = "File not found: " \o tool[1].args[1]
            /\ f.exists /\ f.size >= MaxFileSize => result = "File too large (max 1MB)"

\* C12, amended: read_file returns the contents exactly when the path
\* exists, the size is at most 1,000,000 and nothing raises; the "not found"
\* text for a missing path; the "too large" text, and no content, for every
\* size found above 1,000,000; a "Read error" text when getsize or the read
\* raises.
C12_ReadAtMostCeiling ==
    ToolCalled("read_file") =>
        LET f == tool[1].w.fs
            result == tool[1].result
        IN  /\ result = f.content <=>
                  f.exists /\ f.size <= MaxFileSize /\ f.raised = "no"
            /\ ~f.exists => result = "File not found: " \o tool[1].args[1]
            /\ f.exists /\ f.raised # "getsize" /\ f.size > MaxFileSize =>
                  result = "File too large (max 1MB)"
            /\ f.exists /\ (f.raised = "getsize"
                            \/ (f.raised = "open" /\ f.size <= MaxFileSize)) =>
                  StartsWith(result, "Read error: ")

\* a file of exactly 1,000,000 bytes was read
C12_Witness ==
    /\ ToolCalled("read_file")
    /\ tool[1].w.fs.exists
    /\ tool[1].w.fs.raised = "no"
    /\ tool[1].w.fs.size = MaxFileSize
    /\ tool[1].result = "hello"

\* C13: run_command always returns a text: the captured output for exit
\* status zero, a text with the exit code and the error output for another
\* status, a text describing the failure when the run times out or cannot
\* be launched.
C13_RunCommandTotal ==
    ToolCalled("run_command") =>
        LET p == tool[1].w.proc
            result == tool[1].result
        IN  /\ p.raised = "no" /\ p.returncode = 0 => result = p.stdout
            /\ p.raised = "no" /\ p.returncode # 0 =>
                  result = "Error (code " \o ToString(p.returncode) \o "): " \o p.stderr
            /\ p.raised = "TimeoutExpired" =>
                  result = "Command execution failed: Command '" \o tool[1].args[1]
                              \o "' timed out after 30 seconds"
            /\ p.raised \notin {"no", "TimeoutExpired"} =>
                  StartsWith(result, "Command execution failed: ")

C13_Witness ==
    /\ ToolCalled("run_command")
    /\ tool[1].w.proc.raised = "no"
    /\ tool[1].w.proc.returncode = 127
    /\ tool[1].result = "Error (code 127): err"

\* C14 as stated: whatever the lookup did, the result of get_weather begins
\* by naming the city.
C14_CityPrefix ==
    ToolCalled("get_weather") =>
        StartsWith(tool[1].result, "Weather in " \o tool[1].args[1])

\* C14, amended: after a successful lookup the result is "Weather in
\* <city>: " followed by the trimmed answer; after a failed lookup it is the
\* fixed text "Weather service unavailable", which does not name the city.
C14_CityPrefixOnSuccess ==
    ToolCalled("get_weather") =>
        LET h == tool[1].w.http
        IN  /\ h.ok => tool[1].result = "Weather in " \o tool[1].args[1] \o ": Sunny +20C"
            /\ ~h.ok => tool[1].result = "Weather service unavailable"

C14_Witness ==
    /\ ToolCalled("get_weather")
    /\ tool[1].args = <<"Paris">>
    /\ ~tool[1].w.http.ok
    /\ tool[1].result = "Weather service unavailable"

\* the value of key among the <<key, value>> pairs, "" when it has none
C15_Value(items, key) ==
    IF \E i \in 1..Len(items) : items[i][1] = key
    THEN items[CHOOSE i \in 1..Len(items) : items[i][1] = key][2]
    ELSE ""

\* C15: for a TOOLS decision naming a registered tool, with a parameters
\* mapping or none, write_file is called with the values of file_path and
\* content, "" for a missing one, and any other tool with one argument: the
\* first value of the mapping, "" when the mapping is empty or absent.
C15_DispatchArguments ==
    LET d == C9_Decision(turn)
        function == dict_get(d, "function", None)
        items == IF \E i \in 1..Len(d.items) : d.items[i][1] = "parameters"
                 THEN C15_Value(d.items, "parameters").items
                 ELSE <<>>
    IN  d.kind = "dict" /\ dict_get(d, "mode", "QA") = "TOOLS"
        /\ function \in C9_Registered
        /\ dict_get(d, "parameters", Dict(<<>>)).kind = "dict" =>
            /\ Len(turn.calls) = 1
            /\ turn.calls[1].name = function
            /\ turn.calls[1].args =
                  IF function = "write_file"
                  THEN <<C15_Value(items, "file_path"), C15_Value(items, "content")>>
                  ELSE IF Len(items) = 0 THEN <<"">> ELSE <<items[1][2]>>

\* read_file was called with the first of two parameters
C15_Witness ==
    /\ Len(turn.calls) = 1
    /\ turn.calls[1].name = "read_file"
    /\ turn.calls[1].args = <<"utf-8">>
    /\ turn.replies[1].content = ReplyRead

\* the text is empty or white space only
C16_Blank(text) == \A i \in 1..Len(text) : SubSeq(text, i, i) \in {" ", "\t"}

\* C16: an iteration that reads an empty or white-space-only line changes
\* neither the history nor the session, makes no LLM request and calls no
\* tool.
C16_EmptyInputNoOp ==
    [][turn'.event.kind = "line" /\ C16_Blank(turn'.event.text) =>
          /\ messages' = messages
          /\ scaffold' = scaffold
          /\ turn'.requests = <<>>
          /\ turn'.calls = <<>>
          /\ running']_vars

\* a white-space-only line was read after a first exchange with the LLM
C16_Witness ==
    /\ turn.event = Line("  ")
    /\ Len(messages) = 3
    /\ running

\* the number of session fields that differ between s and t
C17_Changed(s, t) ==
    Cardinality({f \in {"framework", "variant", "project_name"} : s[f] # t[f]})

C17_AllSet(s) == Truthy(s.framework) /\ Truthy(s.variant) /\ Truthy(s.project_name)

\* C17: the session fields are filled left to right; an input taken by the
\* scaffolding flow (the answer to the question printed for `new`) sets
\* exactly one field; when the third field is set the session is inactive
\* and its command was run, once, by that iteration.
C17_LeftToRight ==
    /\ [](/\ Truthy(scaffold.variant) => Truthy(scaffold.framework)
          /\ Truthy(scaffold.project_name) => Truthy(scaffold.variant)
          /\ C17_AllSet(scaffold) => ~scaffold.active)
    /\ [][/\ ReadNew(turn) /\ ReadOrdinary(turn') => C17_Changed(scaffold, scaffold') = 1
          /\ C17_AllSet(scaffold') /\ ~C17_AllSet(scaffold) =>
                /\ Len(turn'.calls) = 1
                /\ turn'.calls[1].name = "run_command"
                /\ turn'.calls[1].args = <<generate_command(scaffold')>>]_vars

\* C18: an iteration that reads an ordinary line while the session is not
\* active makes exactly one LLM request, whose messages are the history so
\* far followed by the line as the user message.
C18_OneRequestFullHistory ==
    [][ReadOrdinary(turn') /\ ~scaffold.active =>
          /\ Len(turn'.requests) = 1
          /\ turn'.requests[1] = Append(messages, Message("user", UserInput(turn')))
          /\ turn'.requests[1][1] = Message("system", SYSTEM_PROMPT)]_vars

\* the second request carried the first exchange
C18_Witness ==
    /\ Len(turn.requests) = 1
    /\ Len(turn.requests[1]) = 4
    /\ turn.requests[1][3].role = "assistant"
    /\ turn.requests[1][4] = Message("user", "my-app")

\* C19: an iteration that asks the LLM leaves the session as it was,
\* whatever the LLM answers and whatever tool is called; the session changes
\* only in iterations that read `new` or that begin with the session active.
C19_SessionChangedByUserOnly ==
    [][/\ turn'.requests # <<>> => scaffold' = scaffold
       /\ scaffold' # scaffold => ReadNew(turn') \/ scaffold.active]_vars

\* the LLM answered with mode SCAFFOLDING and the session is still inactive
C19_Witness ==
    /\ Len(turn.replies) = 1
    /\ turn.replies[1].content = ReplyScaffolding
    /\ ~scaffold.active
    /\ scaffold.framework = None

\* C20: every assistant entry of the history follows a user entry; an
\* iteration whose LLM call fails or whose reply does not parse leaves its
\* user entry last in the history.
C20_RoleStructure ==
    /\ \A i \in 1..Len(messages) :
          messages[i].role = "assistant" => i > 1 /\ messages[i - 1].role = "user"
    /\ Len(turn.replies) = 1 /\ (turn.replies[1].raised \/ ParseFailed(turn)) =>
          Last(messages) = Message("user", UserInput(turn))

\* two user entries in a row
C20_Witness ==
    /\ Len(messages) = 3
    /\ messages[2].role = "user"
    /\ messages[3].role = "user"
    /\ turn.replies[1].raised

====
